---- MODULE Spec2Model ----
(***************************************************************************)
(* Model of the Gemini-Search server (routes.ts: /api/search and           *)
(* /api/follow-up), of its source extraction and response formatting, and  *)
(* of the follow-up mutation of the client page (Search.tsx).              *)
(*                                                                         *)
(* Strings of the program are modelled as follows: identifiers, keys and   *)
(* queries are TLA+ strings with "" the empty / absent (falsy) value;      *)
(* texts that the code concatenates or searches (segment texts, snippets,  *)
(* error messages) are sequences of tokens.                                *)
(***************************************************************************)
EXTENDS Naturals, Integers, Sequences, FiniteSets, TLC

VARIABLES
    env,            \* process.env.GOOGLE_API_KEY, "" when not configured
    chatSessions,   \* the Map chatSessions: session id -> chat object (its heap id)
    chats,          \* heap of ChatSession objects: id -> [key, history]
    pending,        \* requests suspended at `await chat.sendMessage(query)`
    nreq,           \* number of requests received so far
    last,           \* the request answered by the latest response, with that response
    issued,         \* session ids returned by 200 responses of /api/search
    calls,          \* request number -> chat.sendMessage invocations made for it
    responses,      \* request number -> responses sent for it
    rawText,        \* formatter: the raw answer text
    formatted,      \* formatter: the markdown handed to marked.parse
    meta,           \* extraction: the grounding metadata of one answer
    extracted,      \* extraction: the result of the source extraction on meta
    phase,          \* "idle" (server) | "input" | "done" (extraction, formatter)
    client          \* the Search page: its state and the position of followUpMutation

vars == <<env, chatSessions, chats, pending, nreq, last, issued, calls, responses,
          rawText, formatted, meta, extracted, phase, client>>

(***************************************************************************)
(* Bounds                                                                  *)
(***************************************************************************)
MaxRequests == 3    \* requests received in one run
MaxChunks == 3      \* grounding chunks of one answer
MaxSupports == 2    \* grounding supports of one answer
MaxLen == 5         \* characters of one raw answer text

(***************************************************************************)
(* Source extraction (routes.ts, the block after formatResponseToMarkdown) *)
(***************************************************************************)

\* A grounding chunk: web absent, or web with uri/title ("" = missing).
NoWeb == [web |-> FALSE, uri |-> "", title |-> ""]

ChunkVals ==
    { NoWeb,
      [web |-> TRUE, uri |-> "u1", title |-> "t1"],
      [web |-> TRUE, uri |-> "u1", title |-> "t2"],
      [web |-> TRUE, uri |-> "u2", title |-> "t1"],
      [web |-> TRUE, uri |-> "u1", title |-> ""],
      [web |-> TRUE, uri |-> "",   title |-> "t1"] }

\* A grounding support: the cited chunk indices (0-based, as in the code)
\* and the segment text. hasIndices = FALSE: the field groundingChunkIndices
\* is missing from the support.
SupportVals ==
    [hasIndices : {TRUE}, indices : SUBSET {0, 1}, text : {<<"A">>, <<"B", "b">>}]
      \cup {[hasIndices |-> FALSE, indices |-> {}, text |-> <<"A">>]}

SeqsUpTo(S, n) == UNION { [1..k -> S] : k \in 0..n }

\* response.candidates?.[0]?.groundingMetadata; an absent field carries <<>>.
NoMetadata ==
    [present |-> FALSE, hasChunks |-> FALSE, chunks |-> <<>>,
     hasSupports |-> FALSE, supports |-> <<>>]

ChunkLists ==
    {[has |-> FALSE, list |-> <<>>]}
      \cup { [has |-> TRUE, list |-> cs] : cs \in SeqsUpTo(ChunkVals, MaxChunks) }

SupportLists ==
    {[has |-> FALSE, list |-> <<>>]}
      \cup { [has |-> TRUE, list |-> ss] : ss \in SeqsUpTo(SupportVals, MaxSupports) }

\* A metadata value with the given lists; an absent list has no entries.
Metadata(c, s) ==
    [present |-> TRUE, hasChunks |-> c.has, chunks |-> c.list,
     hasSupports |-> s.has, supports |-> s.list]

\* Array.prototype.join(" ") on a list of texts.
RECURSIVE JoinSpace(_)
JoinSpace(ts) ==
    IF ts = <<>> THEN <<>>
    ELSE IF Len(ts) = 1 THEN ts[1]
    ELSE ts[1] \o <<" ">> \o JoinSpace(Tail(ts))

\* supports.filter(s => s.groundingChunkIndices.includes(index))
\*         .map(s => s.segment.text)
RECURSIVE FilterMapSupports(_, _)
FilterMapSupports(supports, index) ==
    IF supports = <<>> THEN <<>>
    ELSE LET s == Head(supports)
             rest == FilterMapSupports(Tail(supports), index)
         IN IF index \in s.indices THEN <<s.text>> \o rest ELSE rest

\* Mutant of SnippetFor: the supports are matched against the 1-based position.
SnippetForOffByOne(supports, index) ==
    JoinSpace(FilterMapSupports(supports, index + 1))

\* The snippet of the chunk at `index`: the join, then `snippets || ""`.
SnippetFor(supports, index) == JoinSpace(FilterMapSupports(supports, index))

\* Mutant of MapHas: the URL is never found, so nothing is deduplicated.
MapHasNever(sourceMap, url) == FALSE

\* sourceMap.has(url) on the insertion-ordered Map
MapHas(sourceMap, url) == \E i \in 1..Len(sourceMap) : sourceMap[i].url = url

\* Mutant of ChunkUsable: the title is not required.
ChunkUsableUriOnly(chunk) == chunk.web /\ chunk.uri # ""

\* chunk.web?.uri && chunk.web?.title
ChunkUsable(chunk) == chunk.web /\ chunk.uri # "" /\ chunk.title # ""

\* .includes on a missing groundingChunkIndices is a TypeError; filter visits
\* every support, so one such support faults the whole handler.
SupportsFault(supports) == \E i \in 1..Len(supports) : ~supports[i].hasIndices

\* chunks.forEach((chunk, index) => ...), from position i (1-based; the
\* code's index is i - 1), with the accumulated sourceMap.
RECURSIVE ForEachChunk(_, _, _, _)
ForEachChunk(chunks, supports, i, sourceMap) ==
    IF i > Len(chunks) THEN [threw |-> FALSE, sources |-> sourceMap]
    ELSE LET chunk == chunks[i] IN
         IF ChunkUsable(chunk) /\ ~MapHas(sourceMap, chunk.uri)
         THEN IF SupportsFault(supports)
              THEN [threw |-> TRUE, sources |-> <<>>]
              ELSE ForEachChunk(chunks, supports, i + 1,
                     Append(sourceMap,
                            [title |-> chunk.title, url |-> chunk.uri,
                             snippet |-> SnippetFor(supports, i - 1)]))
         ELSE ForEachChunk(chunks, supports, i + 1, sourceMap)

\* if (metadata) { chunks = metadata.groundingChunks || []; ... };
\* sources = Array.from(sourceMap.values())
ExtractSources(m) ==
    IF ~m.present THEN [threw |-> FALSE, sources |-> <<>>]
    ELSE ForEachChunk(IF m.hasChunks THEN m.chunks ELSE <<>>,
                      IF m.hasSupports THEN m.supports ELSE <<>>,
                      1, <<>>)

(***************************************************************************)
(* Response formatting (formatResponseToMarkdown); a text is a sequence of *)
(* characters.                                                             *)
(***************************************************************************)
LF == "\n"
CR == "\r"
Bullet == "(bullet)"     \* one of the glyphs of the class in /^[...]\s*/gm

\* The characters of the raw answer texts.
Chars == {"A", "a", " ", LF, CR, ":", "3", Bullet}

IsLetter(c) == c \in {"A", "a"}          \* [A-Za-z]
IsDigit(c) == c = "3"                    \* \d
IsSpace(c) == c \in {" ", LF, CR}        \* \s
IsLabelChar(c) == IsLetter(c) \/ IsSpace(c)   \* [A-Za-z\s]

\* ^ under the m flag: the start of the text or just after a line terminator.
AtLineStart(t, i) == i = 1 \/ t[i - 1] \in {LF, CR}

\* The last position of the longest run of [A-Za-z\s] (of \s) that starts at
\* i; i - 1 when the run is empty.
RECURSIVE LabelRunEnd(_, _)
LabelRunEnd(t, i) ==
    IF i <= Len(t) /\ IsLabelChar(t[i]) THEN LabelRunEnd(t, i + 1) ELSE i - 1

RECURSIVE SpaceRunEnd(_, _)
SpaceRunEnd(t, i) ==
    IF i <= Len(t) /\ IsSpace(t[i]) THEN SpaceRunEnd(t, i + 1) ELSE i - 1

\* processedText.replace(/\r\n/g, "\n")
RECURSIVE NormalizeNewlines(_)
NormalizeNewlines(t) ==
    IF t = <<>> THEN <<>>
    ELSE IF Len(t) >= 2 /\ t[1] = CR /\ t[2] = LF
         THEN <<LF>> \o NormalizeNewlines(SubSeq(t, 3, Len(t)))
         ELSE <<t[1]>> \o NormalizeNewlines(Tail(t))

\* A match of [A-Za-z][A-Za-z\s]+: at i. The greedy run is the longest one:
\* a shorter run is followed by a character of the run, never by the colon.
LabelMatch(t, i) ==
    LET k == LabelRunEnd(t, i + 1)
    IN [ok |-> /\ i <= Len(t) /\ IsLetter(t[i])
               /\ k >= i + 1
               /\ k + 1 <= Len(t) /\ t[k + 1] = ":",
        labelEnd |-> k]

\* replace(/^([A-Za-z][A-Za-z\s]+):(\s*)/gm, "## $1$2"), scanning from i.
RECURSIVE PromoteSectionsFrom(_, _)
PromoteSectionsFrom(t, i) ==
    IF i > Len(t) THEN <<>>
    ELSE LET m == LabelMatch(t, i)
             w == SpaceRunEnd(t, m.labelEnd + 2)
         IN IF AtLineStart(t, i) /\ m.ok
            THEN <<"#", "#", " ">> \o SubSeq(t, i, m.labelEnd)
                     \o SubSeq(t, m.labelEnd + 2, w) \o PromoteSectionsFrom(t, w + 1)
            ELSE <<t[i]>> \o PromoteSectionsFrom(t, i + 1)

PromoteSections(t) == PromoteSectionsFrom(t, 1)

\* replace(/(?<=\n|^)([A-Za-z][A-Za-z\s]+):(?!\d)/gm, "### $1"), scanning from i.
RECURSIVE PromoteSubsectionsFrom(_, _)
PromoteSubsectionsFrom(t, i) ==
    IF i > Len(t) THEN <<>>
    ELSE LET m == LabelMatch(t, i)
             c == m.labelEnd + 1
         IN IF /\ AtLineStart(t, i) /\ m.ok
               /\ ~(c + 1 <= Len(t) /\ IsDigit(t[c + 1]))
            THEN <<"#", "#", "#", " ">> \o SubSeq(t, i, m.labelEnd)
                     \o PromoteSubsectionsFrom(t, c + 1)
            ELSE <<t[i]>> \o PromoteSubsectionsFrom(t, i + 1)

PromoteSubsections(t) == PromoteSubsectionsFrom(t, 1)

\* replace(/^[...]\s*/gm, "* "), scanning from i.
RECURSIVE NormalizeBulletsFrom(_, _)
NormalizeBulletsFrom(t, i) ==
    IF i > Len(t) THEN <<>>
    ELSE IF AtLineStart(t, i) /\ t[i] = Bullet
         THEN <<"*", " ">> \o NormalizeBulletsFrom(t, SpaceRunEnd(t, i + 1) + 1)
         ELSE <<t[i]>> \o NormalizeBulletsFrom(t, i + 1)

NormalizeBullets(t) == NormalizeBulletsFrom(t, 1)

\* split("\n\n")
RECURSIVE SplitParagraphs(_)
SplitParagraphs(t) ==
    LET cuts == { i \in 1..(Len(t) - 1) : t[i] = LF /\ t[i + 1] = LF }
    IN IF cuts = {} THEN <<t>>
       ELSE LET i == CHOOSE c \in cuts : \A d \in cuts : c <= d
            IN <<SubSeq(t, 1, i - 1)>> \o SplitParagraphs(SubSeq(t, i + 2, Len(t)))

\* .filter(Boolean).map(p => header or list item ? p : p + "\n").join("\n\n")
RECURSIVE JoinParagraphs(_)
JoinParagraphs(ps) ==
    IF ps = <<>> THEN <<>>
    ELSE IF Len(ps) = 1 THEN ps[1]
    ELSE ps[1] \o <<LF, LF>> \o JoinParagraphs(Tail(ps))

SpaceParagraph(p) == IF p[1] \in {"#", "*", "-"} THEN p ELSE p \o <<LF>>

SpaceParagraphs(t) ==
    LET kept == SelectSeq(SplitParagraphs(t), LAMBDA p : p # <<>>)
    IN JoinParagraphs([k \in 1..Len(kept) |-> SpaceParagraph(kept[k])])

\* The successive values of processedText and the markdown text given to
\* marked.parse.
FormatStages(text) ==
    LET normalized == NormalizeNewlines(text)
        sections == PromoteSections(normalized)
        subsections == PromoteSubsections(sections)
        bullets == NormalizeBullets(subsections)
    IN [normalized |-> normalized, sections |-> sections,
        subsections |-> subsections, bullets |-> bullets,
        markdown |-> SpaceParagraphs(bullets)]

NoStages ==
    [normalized |-> <<>>, sections |-> <<>>, subsections |-> <<>>,
     bullets |-> <<>>, markdown |-> <<>>]

(***************************************************************************)
(* Credentials and errors                                                  *)
(***************************************************************************)
ApiKeys == {"", "k1"}          \* req.query.apiKey / req.body.apiKey
EnvKeys == {"", "envkey"}      \* GOOGLE_API_KEY of the process
Queries == {"", "q1"}
\* Tokens Math.random().toString(36).substring(7) can yield. A random number
\* with a short base-36 expansion (0.5 is "0.i") yields the empty token.
SessionIds == {"", "s1", "s2"}
AskedIds == {"", "s1", "s2"}   \* sessionId values a caller can send

\* Mutant of NoKeyMessage: the text no longer holds the words "API key".
NoKeyMessageReworded == <<"No", "credential", "provided">>

\* Error messages, as token sequences.
NoKeyMessage == <<"No", "API", "key", "provided">>
TypeErrorMessage == <<"Cannot", "read", "properties", "of", "undefined">>
DefaultSearchMessage == <<"An", "error", "occurred", "search">>
DefaultFollowUpMessage == <<"An", "error", "occurred", "follow-up">>
RequiredQMessage == <<"Query", "parameter", "q", "is", "required">>
RequiredBothMessage == <<"Both", "sessionId", "and", "query", "are", "required">>
NotFoundMessage == <<"Chat", "session", "not", "found">>

\* Errors the provider SDK rejects sendMessage / response.text() with. They
\* are all instances of Error.
ProviderErrors ==
    { <<"API", "key", "not", "valid">>,
      <<"fetch", "failed">>,
      <<>> }

\* String.prototype.includes
Includes(msg, pat) ==
    \E i \in 1..(Len(msg) + 1) :
        /\ i + Len(pat) - 1 <= Len(msg)
        /\ SubSeq(msg, i, i + Len(pat) - 1) = pat

\* Mutant of GetGoogleAI: the configured key is preferred to the caller's.
GetGoogleAIEnvFirst(apiKey, envKey) ==
    LET key == IF envKey # "" THEN envKey ELSE apiKey
    IN [threw |-> key = "", key |-> key, message |-> NoKeyMessage]

\* getGoogleAI(apiKey): key = apiKey || process.env.GOOGLE_API_KEY;
\* throws when the key is empty.
GetGoogleAI(apiKey, envKey) ==
    LET key == IF apiKey # "" THEN apiKey ELSE envKey
    IN [threw |-> key = "", key |-> key, message |-> NoKeyMessage]

\* Mutant of SearchQueryMissing: the query is not validated.
SearchQueryNeverMissing(query) == FALSE

\* if (!query) of /api/search
SearchQueryMissing(query) == query = ""

\* Mutant of FollowUpInputMissing: only the sessionId is validated.
FollowUpSessionIdMissing(sessionId, query) == sessionId = ""

\* if (!sessionId || !query) of /api/follow-up
FollowUpInputMissing(sessionId, query) == sessionId = "" \/ query = ""

(***************************************************************************)
(* Responses                                                               *)
(***************************************************************************)
Response(status, fields, sessionId, sources, message) ==
    [status |-> status, fields |-> fields, sessionId |-> sessionId,
     sources |-> sources, message |-> message]

\* Mutant of SearchCatch: every error is answered 500.
SearchCatchAll500(message) ==
    Response(500, {"message"}, "", <<>>,
             IF message # <<>> THEN message ELSE DefaultSearchMessage)

\* The catch blocks of /api/search: the inner one remaps an error whose
\* message includes "API key" to 401, the outer one answers 500.
SearchCatch(message) ==
    IF Includes(message, <<"API", "key">>)
    THEN Response(401, {"error", "message", "requiresApiKey"}, "", <<>>, message)
    ELSE Response(500, {"message"}, "", <<>>,
                  IF message # <<>> THEN message ELSE DefaultSearchMessage)

\* Mutant of FollowUpCatch: the error envelope also carries a summary.
FollowUpCatchPartial(message) ==
    Response(500, {"message", "summary"}, "", <<>>,
             IF message # <<>> THEN message ELSE DefaultFollowUpMessage)

\* The catch block of /api/follow-up.
FollowUpCatch(message) ==
    Response(500, {"message"}, "", <<>>,
             IF message # <<>> THEN message ELSE DefaultFollowUpMessage)

\* res.json({sessionId, summary, sources}) of /api/search
SearchOk(sessionId, sources) ==
    Response(200, {"sessionId", "summary", "sources"}, sessionId, sources, <<>>)

\* res.json({summary, sources}) of /api/follow-up
FollowUpOk(sources) ==
    Response(200, {"summary", "sources"}, "", sources, <<>>)

NoResponse == Response(0, {}, "", <<>>, <<>>)

(***************************************************************************)
(* The server                                                              *)
(***************************************************************************)

\* Grounding metadata the provider answers with in the server runs.
MetaSamples ==
    { NoMetadata,
      [present |-> TRUE, hasChunks |-> TRUE,
       chunks |-> << [web |-> TRUE, uri |-> "u1", title |-> "t1"],
                     [web |-> TRUE, uri |-> "u1", title |-> "t2"] >>,
       hasSupports |-> TRUE,
       supports |-> << [hasIndices |-> TRUE, indices |-> {0}, text |-> <<"A">>] >>],
      [present |-> TRUE, hasChunks |-> TRUE,
       chunks |-> << [web |-> TRUE, uri |-> "u1", title |-> "t1"] >>,
       hasSupports |-> TRUE,
       supports |-> << [hasIndices |-> FALSE, indices |-> {}, text |-> <<"A">>] >>] }

NoRequest ==
    [id |-> 0, kind |-> "none", query |-> "", apiKey |-> "", sessionId |-> "",
     resolved |-> FALSE, called |-> FALSE, key |-> "", failed |-> FALSE,
     cause |-> <<>>, resp |-> NoResponse]

\* The record of a request and of the response that ends it.
\*   resolved: getGoogleAI ran for it;  called: chat.sendMessage ran for it;
\*   key: the credential of the provider client the call went through;
\*   failed, cause: an error was thrown while handling it, and its message.
Answered(id, kind, query, apiKey, sessionId, resolved, called, key, failed, cause, resp) ==
    [id |-> id, kind |-> kind, query |-> query, apiKey |-> apiKey,
     sessionId |-> sessionId, resolved |-> resolved, called |-> called,
     key |-> key, failed |-> failed, cause |-> cause, resp |-> resp]

\* A request suspended at `await chat.sendMessage(query)`.
Suspended(id, kind, query, apiKey, sessionId, chat) ==
    [id |-> id, kind |-> kind, query |-> query, apiKey |-> apiKey,
     sessionId |-> sessionId, chat |-> chat]

\* chatSessions.get(sessionId): the chat object, or undefined. Heap ids of
\* chat objects are request numbers, so 0 is no object.
Undefined == 0

\* Mutant of MapGet: a session with a call in flight is not handed out.
MapGetIdle(map, sessionId) ==
    IF sessionId \in DOMAIN map /\ \A p \in pending : p.chat # map[sessionId]
    THEN map[sessionId] ELSE Undefined

\* Mutant of MapGet: an unknown id falls back to some stored session.
MapGetFallback(map, sessionId) ==
    IF sessionId \in DOMAIN map THEN map[sessionId]
    ELSE IF DOMAIN map # {} THEN map[CHOOSE k \in DOMAIN map : TRUE]
    ELSE Undefined

MapGet(map, sessionId) ==
    IF sessionId \in DOMAIN map THEN map[sessionId] ELSE Undefined

\* Mutant of MapSet: an id already in use keeps its prior session.
MapSetIfAbsent(map, sessionId, chat) ==
    [k \in DOMAIN map \cup {sessionId} |-> IF k \in DOMAIN map THEN map[k] ELSE chat]

\* Mutant of MapSet: the store is capped at one other entry (the rest is evicted).
MapSetCapped(map, sessionId, chat) ==
    LET others == DOMAIN map \ {sessionId}
        kept == IF others = {} THEN {} ELSE {CHOOSE k \in others : TRUE}
    IN [k \in kept \cup {sessionId} |-> IF k = sessionId THEN chat ELSE map[k]]

\* Mutant of MapSet: the new entry replaces the whole map.
MapSetAlone(map, sessionId, chat) == [k \in {sessionId} |-> chat]

\* chatSessions.set(sessionId, chat)
MapSet(map, sessionId, chat) ==
    [k \in DOMAIN map \cup {sessionId} |-> IF k = sessionId THEN chat ELSE map[k]]

\* The SDK's ChatSession.sendMessage, on success: the user turn and the
\* model turn are pushed onto the chat's history.
\* Mutant of PushTurns: the model turn is not recorded.
PushUserTurnOnly(chat, query, req) ==
    [chat EXCEPT !.history = Append(@, [role |-> "user", text |-> query, req |-> req])]

\* req is the request whose call produced the two turn objects.
PushTurns(chat, query, req) ==
    [chat EXCEPT !.history =
        @ \o << [role |-> "user", text |-> query, req |-> req],
                [role |-> "model", text |-> "answer", req |-> req] >>]

\* One more invocation / response counted for request id.
Count(f, id) == [f EXCEPT ![id] = @ + 1]

\* The Search page with no saved state and no mutation running.
NoFetch == [kind |-> "none", sessionId |-> "", query |-> "", apiKey |-> ""]

NoClient ==
    [sessionId |-> "", customApiKey |-> "", pc |-> "idle", query |-> "",
     wire |-> NoFetch, sent |-> 0, outcome |-> "none"]

ServerIdle == <<rawText, formatted, meta, extracted, phase, client>>

\* The state of the server, left alone by the runs of the pure functions.
ServerState == <<env, chatSessions, chats, pending, nreq, last, issued, calls, responses>>

Init ==
    /\ env \in EnvKeys
    /\ chatSessions = << >>
    /\ chats = << >>
    /\ pending = {}
    /\ nreq = 0
    /\ last = NoRequest
    /\ issued = {}
    /\ calls = [id \in 1..MaxRequests |-> 0]
    /\ responses = [id \in 1..MaxRequests |-> 0]
    /\ rawText = <<>>
    /\ formatted = NoStages
    /\ meta = NoMetadata
    /\ extracted = [threw |-> FALSE, sources |-> <<>>]
    /\ phase = "idle"
    /\ client = NoClient

\* GET /api/search, up to the response or to `await chat.sendMessage(query)`.
SearchStart(query, apiKey) ==
    /\ phase = "idle"
    /\ nreq < MaxRequests
    /\ nreq' = nreq + 1
    /\ LET id == nreq + 1
           g == GetGoogleAI(apiKey, env)
       IN IF SearchQueryMissing(query)
          THEN /\ last' = Answered(id, "search", query, apiKey, "", FALSE, FALSE, "",
                                   FALSE, <<>>, Response(400, {"message"}, "", <<>>, RequiredQMessage))
               /\ responses' = Count(responses, id)
               /\ UNCHANGED <<chats, pending, calls>>
          ELSE IF g.threw
          THEN /\ last' = Answered(id, "search", query, apiKey, "", TRUE, FALSE, "",
                                   TRUE, g.message, SearchCatch(g.message))
               /\ responses' = Count(responses, id)
               /\ UNCHANGED <<chats, pending, calls>>
          ELSE /\ chats' = (id :> [key |-> g.key, history |-> <<>>]) @@ chats
               /\ pending' = pending \cup {Suspended(id, "search", query, apiKey, "", id)}
               /\ calls' = Count(calls, id)
               /\ UNCHANGED <<last, responses>>
    /\ UNCHANGED <<env, chatSessions, issued, ServerIdle>>

\* GET /api/search, the provider answered: format, extract, store, respond.
SearchAnswered(p, m, sessionId) ==
    /\ p \in pending /\ p.kind = "search"
    /\ pending' = pending \ {p}
    /\ responses' = Count(responses, p.id)
    /\ LET ex == ExtractSources(m)
           done(failed, cause, resp) ==
               Answered(p.id, "search", p.query, p.apiKey, "", TRUE, TRUE,
                        chats[p.chat].key, failed, cause, resp)
       IN IF ex.threw
          THEN /\ last' = done(TRUE, TypeErrorMessage, SearchCatch(TypeErrorMessage))
               /\ chats' = [c \in DOMAIN chats \ {p.chat} |-> chats[c]]
               /\ UNCHANGED <<chatSessions, issued>>
          ELSE /\ last' = done(FALSE, <<>>, SearchOk(sessionId, ex.sources))
               /\ chats' = [chats EXCEPT ![p.chat] = PushTurns(@, p.query, p.id)]
               /\ chatSessions' = MapSet(chatSessions, sessionId, p.chat)
               /\ issued' = issued \cup {sessionId}
    /\ UNCHANGED <<env, nreq, calls, ServerIdle>>

\* Mutant of SearchFailed: a failed provider call is sent once more before
\* the catch blocks respond.
SearchFailedRetried(p, message) ==
    /\ p \in pending /\ p.kind = "search"
    /\ IF calls[p.id] < 2
       THEN /\ calls' = Count(calls, p.id)
            /\ UNCHANGED <<pending, last, chats, responses>>
       ELSE /\ pending' = pending \ {p}
            /\ last' = Answered(p.id, "search", p.query, p.apiKey, "", TRUE, TRUE,
                                chats[p.chat].key, TRUE, message, SearchCatch(message))
            /\ chats' = [c \in DOMAIN chats \ {p.chat} |-> chats[c]]
            /\ responses' = Count(responses, p.id)
            /\ UNCHANGED calls
    /\ UNCHANGED <<env, chatSessions, nreq, issued, ServerIdle>>

\* GET /api/search, the provider call failed: the catch blocks respond.
SearchFailed(p, message) ==
    /\ p \in pending /\ p.kind = "search"
    /\ pending' = pending \ {p}
    /\ last' = Answered(p.id, "search", p.query, p.apiKey, "", TRUE, TRUE,
                        chats[p.chat].key, TRUE, message, SearchCatch(message))
    /\ chats' = [c \in DOMAIN chats \ {p.chat} |-> chats[c]]
    /\ responses' = Count(responses, p.id)
    /\ UNCHANGED <<env, chatSessions, nreq, issued, calls, ServerIdle>>

\* POST /api/follow-up, up to the response or to `await chat.sendMessage(query)`.
FollowUpStart(sessionId, query, apiKey) ==
    /\ phase = "idle"
    /\ nreq < MaxRequests
    /\ nreq' = nreq + 1
    /\ LET id == nreq + 1
           chat == MapGet(chatSessions, sessionId)
           done(resp) == Answered(id, "followup", query, apiKey, sessionId, FALSE, FALSE, "",
                                  FALSE, <<>>, resp)
       IN IF FollowUpInputMissing(sessionId, query)
          THEN /\ last' = done(Response(400, {"message"}, "", <<>>, RequiredBothMessage))
               /\ responses' = Count(responses, id)
               /\ UNCHANGED <<pending, calls>>
          ELSE IF chat = Undefined
          THEN /\ last' = done(Response(404, {"message"}, "", <<>>, NotFoundMessage))
               /\ responses' = Count(responses, id)
               /\ UNCHANGED <<pending, calls>>
          ELSE /\ pending' = pending \cup
                     {Suspended(id, "followup", query, apiKey, sessionId, chat)}
               /\ calls' = Count(calls, id)
               /\ UNCHANGED <<last, responses>>
    /\ UNCHANGED <<env, chatSessions, chats, issued, ServerIdle>>

\* POST /api/follow-up, the provider answered: format, extract, respond.
FollowUpAnswered(p, m) ==
    /\ p \in pending /\ p.kind = "followup"
    /\ pending' = pending \ {p}
    /\ responses' = Count(responses, p.id)
    /\ chats' = [chats EXCEPT ![p.chat] = PushTurns(@, p.query, p.id)]
    /\ LET ex == ExtractSources(m)
       IN last' = Answered(p.id, "followup", p.query, p.apiKey, p.sessionId, FALSE, TRUE,
                           chats[p.chat].key, ex.threw,
                           IF ex.threw THEN TypeErrorMessage ELSE <<>>,
                           IF ex.threw THEN FollowUpCatch(TypeErrorMessage)
                           ELSE FollowUpOk(ex.sources))
    /\ UNCHANGED <<env, chatSessions, nreq, issued, calls, ServerIdle>>

\* POST /api/follow-up, the provider call failed: the catch block responds.
FollowUpFailed(p, message) ==
    /\ p \in pending /\ p.kind = "followup"
    /\ pending' = pending \ {p}
    /\ last' = Answered(p.id, "followup", p.query, p.apiKey, p.sessionId, FALSE, TRUE,
                        chats[p.chat].key, TRUE, message, FollowUpCatch(message))
    /\ responses' = Count(responses, p.id)
    /\ UNCHANGED <<env, chatSessions, chats, nreq, issued, calls, ServerIdle>>

Next ==
    \/ \E q \in Queries, k \in ApiKeys : SearchStart(q, k)
    \/ \E p \in pending, m \in MetaSamples, s \in SessionIds : SearchAnswered(p, m, s)
    \/ \E p \in pending, e \in ProviderErrors : SearchFailed(p, e)
    \/ \E s \in AskedIds, q \in Queries, k \in ApiKeys : FollowUpStart(s, q, k)
    \/ \E p \in pending, m \in MetaSamples : FollowUpAnswered(p, m)
    \/ \E p \in pending, e \in ProviderErrors : FollowUpFailed(p, e)

Spec == Init /\ [][Next]_vars

\* The provider call of a suspended request settles: the promise resolves or
\* rejects and the event loop runs the rest of the handler.
Settle ==
    \/ \E p \in pending, m \in MetaSamples, s \in SessionIds : SearchAnswered(p, m, s)
    \/ \E p \in pending, e \in ProviderErrors : SearchFailed(p, e)
    \/ \E p \in pending, m \in MetaSamples : FollowUpAnswered(p, m)
    \/ \E p \in pending, e \in ProviderErrors : FollowUpFailed(p, e)

\* The server with a provider that settles every call.
FairSpec == Spec /\ WF_vars(Settle)

(***************************************************************************)
(* The source extraction on its own: every metadata value within the       *)
(* bounds is an input, and one step applies the extraction to it.          *)
(***************************************************************************)
InitExtract ==
    /\ env = ""
    /\ chatSessions = << >>
    /\ chats = << >>
    /\ pending = {}
    /\ nreq = 0
    /\ last = NoRequest
    /\ issued = {}
    /\ calls = [id \in 1..MaxRequests |-> 0]
    /\ responses = [id \in 1..MaxRequests |-> 0]
    /\ rawText = <<>>
    /\ formatted = NoStages
    /\ \/ meta = NoMetadata
       \/ \E c \in ChunkLists, s \in SupportLists : meta = Metadata(c, s)
    /\ extracted = [threw |-> FALSE, sources |-> <<>>]
    /\ phase = "input"
    /\ client = NoClient

Extract ==
    /\ phase = "input"
    /\ extracted' = ExtractSources(meta)
    /\ phase' = "done"
    /\ UNCHANGED <<ServerState, rawText, formatted, meta, client>>

NextExtract == Extract

SpecExtract == InitExtract /\ [][NextExtract]_vars

(***************************************************************************)
(* The formatter on its own: every text within the bound is an input, and  *)
(* one step applies formatResponseToMarkdown to it.                        *)
(***************************************************************************)
InitFormat ==
    /\ env = ""
    /\ chatSessions = << >>
    /\ chats = << >>
    /\ pending = {}
    /\ nreq = 0
    /\ last = NoRequest
    /\ issued = {}
    /\ calls = [id \in 1..MaxRequests |-> 0]
    /\ responses = [id \in 1..MaxRequests |-> 0]
    /\ rawText \in SeqsUpTo(Chars, MaxLen)
    /\ formatted = NoStages
    /\ meta = NoMetadata
    /\ extracted = [threw |-> FALSE, sources |-> <<>>]
    /\ phase = "input"
    /\ client = NoClient

Format ==
    /\ phase = "input"
    /\ formatted' = FormatStages(rawText)
    /\ phase' = "done"
    /\ UNCHANGED <<ServerState, rawText, meta, extracted, client>>

NextFormat == Format

SpecFormat == InitFormat /\ [][NextFormat]_vars

(***************************************************************************)
(* Properties of the source extraction (checked under SpecExtract)         *)
(***************************************************************************)
MetaChunks == IF meta.present /\ meta.hasChunks THEN meta.chunks ELSE <<>>
MetaSupports == IF meta.present /\ meta.hasSupports THEN meta.supports ELSE <<>>

\* A chunk that has both a URI and a title.
HasUriAndTitle(c) == c.web /\ c.uri # "" /\ c.title # ""

\* Position (1-based) of the first chunk with both a URI and a title whose
\* URI is url.
FirstChunkOf(url) ==
    CHOOSE i \in 1..Len(MetaChunks) :
        /\ HasUriAndTitle(MetaChunks[i]) /\ MetaChunks[i].uri = url
        /\ \A j \in 1..(i - 1) :
              ~(HasUriAndTitle(MetaChunks[j]) /\ MetaChunks[j].uri = url)

CitedUrls ==
    { MetaChunks[i].uri : i \in { j \in 1..Len(MetaChunks) : HasUriAndTitle(MetaChunks[j]) } }

Returned == phase = "done" /\ ~extracted.threw

\* C3: the Source list of one answer has no two entries with the same url,
\* and the Source of a URL bears the title of the first chunk, in chunk
\* order, that has that URL with both a URI and a title.
C3_Dedup ==
    Returned =>
        LET src == extracted.sources IN
        /\ \A i, j \in 1..Len(src) : src[i].url = src[j].url => i = j
        /\ \A i \in 1..Len(src) :
              /\ src[i].url \in CitedUrls
              /\ src[i].title = MetaChunks[FirstChunkOf(src[i].url)].title

\* Two chunks carry the same URL with different titles and one Source came out.
C3_Witness ==
    /\ Returned
    /\ Len(extracted.sources) = 1
    /\ \E i, j \in 1..Len(MetaChunks) :
          /\ i < j
          /\ HasUriAndTitle(MetaChunks[i]) /\ HasUriAndTitle(MetaChunks[j])
          /\ MetaChunks[i].uri = MetaChunks[j].uri
          /\ MetaChunks[i].title # MetaChunks[j].title
          /\ extracted.sources[1].title = MetaChunks[i].title

\* The texts of the supports citing the 0-based chunk index idx, in support
\* order, joined by single spaces (built from the last text backwards).
RECURSIVE SpaceJoined(_)
SpaceJoined(texts) ==
    IF Len(texts) = 0 THEN <<>>
    ELSE IF Len(texts) = 1 THEN texts[1]
    ELSE SpaceJoined(SubSeq(texts, 1, Len(texts) - 1)) \o <<" ">> \o texts[Len(texts)]

CitingTexts(idx) ==
    LET citing == SelectSeq(MetaSupports, LAMBDA s : idx \in s.indices)
    IN [k \in 1..Len(citing) |-> citing[k].text]

\* C4: the snippet of each Source is the segment texts of exactly the
\* supports that cite the index of the chunk that introduced the URL, in
\* support order, joined by single spaces; it is empty when none cites it.
C4_SnippetJoin ==
    Returned =>
        \A i \in 1..Len(extracted.sources) :
            LET src == extracted.sources[i]
                idx == FirstChunkOf(src.url) - 1
            IN /\ src.snippet = SpaceJoined(CitingTexts(idx))
               /\ (\A k \in 1..Len(MetaSupports) : idx \notin MetaSupports[k].indices)
                     => src.snippet = <<>>

\* Chunk index 0 is cited by the supports "A" and "B b" in that order.
C4_Witness ==
    /\ Returned
    /\ Len(MetaSupports) = 2
    /\ MetaSupports[1].text = <<"A">> /\ 0 \in MetaSupports[1].indices
    /\ MetaSupports[2].text = <<"B", "b">> /\ 0 \in MetaSupports[2].indices
    /\ Len(extracted.sources) >= 1
    /\ extracted.sources[1].snippet = <<"A", " ", "B", "b">>

SearchesPending == { p \in pending : p.kind = "search" }
FollowUpsPending == { p \in pending : p.kind = "followup" }

\* C1: a session id returned by a successful StartSearch stays a key of the
\* store, a later follow-up with that id and a non-empty query is never
\* answered 404, and its success carries summary and sources only, no
\* sessionId.
C1_Continuity ==
    /\ issued \subseteq DOMAIN chatSessions
    /\ (last.kind = "followup" /\ last.query # "" /\ last.sessionId \in issued) =>
          /\ last.resp.status # 404
          /\ last.resp.status = 200 =>
                /\ last.resp.fields = {"summary", "sources"}
                /\ last.resp.sessionId = ""

\* A follow-up on an issued session id was answered 200.
C1_Witness ==
    /\ last.kind = "followup"
    /\ last.sessionId \in issued
    /\ last.resp.status = 200

\* C2: a follow-up with non-empty sessionId and query whose sessionId is not
\* a key of the store is answered 404 {message} in the step that receives
\* it; that step starts no provider call and leaves the store (and the chat
\* objects) unchanged; a follow-up reaches the provider only on the chat
\* stored under its sessionId.
C2_Step ==
    /\ \A p \in pending' \ pending :
          p.kind = "followup" =>
              /\ p.sessionId \in DOMAIN chatSessions
              /\ p.chat = chatSessions[p.sessionId]
    /\ ( /\ nreq' # nreq /\ last'.id = nreq' /\ last'.kind = "followup"
         /\ last'.sessionId # "" /\ last'.query # ""
         /\ last'.sessionId \notin DOMAIN chatSessions )
          => /\ last'.resp.status = 404
             /\ last'.resp.fields = {"message"}
             /\ ~last'.called
             /\ UNCHANGED <<chatSessions, chats, pending>>

C2_NotFound == [][C2_Step]_vars

\* An unknown id was answered 404 while another session is stored.
C2_Witness ==
    /\ last.kind = "followup"
    /\ last.resp.status = 404
    /\ last.sessionId \notin DOMAIN chatSessions
    /\ DOMAIN chatSessions # {}
    /\ ~last.called

\* C6: a StartSearch with an empty query is answered 400 with no credential
\* resolved and no provider call; no provider call is ever pending for an
\* empty query and no stored session stems from one.
C6_MissingQuery ==
    /\ (last.kind = "search" /\ last.query = "") =>
          /\ last.resp.status = 400
          /\ ~last.resolved
          /\ ~last.called
    /\ \A p \in SearchesPending : p.query # ""
    /\ \A s \in DOMAIN chatSessions : chats[chatSessions[s]].history[1].text # ""

\* An empty query was answered 400 although a credential was at hand.
C6_Witness ==
    /\ last.kind = "search"
    /\ last.query = ""
    /\ last.apiKey # ""
    /\ last.resp.status = 400

\* The credential the Credential Resolver rule selects.
Preferred(apiKey) == IF apiKey # "" THEN apiKey ELSE env

\* C7: the provider client of a StartSearch is constructed with the
\* caller-supplied apiKey when that is non-empty, else with the configured
\* credential.
C7_Precedence ==
    /\ \A p \in SearchesPending : chats[p.chat].key = Preferred(p.apiKey)
    /\ (last.kind = "search" /\ last.called) => last.key = Preferred(last.apiKey)

\* Both credentials exist and the call went out with the caller's.
C7_Witness ==
    /\ env = "envkey"
    /\ last.kind = "search"
    /\ last.called
    /\ last.apiKey = "k1"
    /\ last.key = "k1"

\* C8: a StartSearch with a query but no caller-supplied and no configured
\* credential is answered 401 with requiresApiKey, without a provider call;
\* no such request is ever pending at the provider, and no session is stored
\* for a chat without a credential.
C8_MissingCredential ==
    /\ (last.kind = "search" /\ last.query # "" /\ last.apiKey = "" /\ env = "") =>
          /\ last.resp.status = 401
          /\ last.resp.fields = {"error", "message", "requiresApiKey"}
          /\ ~last.called
    /\ \A p \in SearchesPending : ~(p.apiKey = "" /\ env = "")
    /\ \A s \in DOMAIN chatSessions : chats[chatSessions[s]].key # ""

\* A query without any credential was answered 401 while a session is stored.
C8_Witness ==
    /\ env = ""
    /\ last.kind = "search"
    /\ last.query # ""
    /\ last.apiKey = ""
    /\ last.resp.status = 401
    /\ ~last.called
    /\ DOMAIN chatSessions # {}

\* C9: a follow-up on a found session resolves the credential by the
\* Credential Resolver rule and calls the provider with it; without a usable
\* credential it does not call the provider.
C9_FollowUpCredential ==
    /\ \A p \in FollowUpsPending :
          /\ Preferred(p.apiKey) # ""
          /\ chats[p.chat].key = Preferred(p.apiKey)
    /\ (last.kind = "followup" /\ last.called) =>
          /\ last.resolved
          /\ last.key = Preferred(last.apiKey)

\* Messages that carry a credential-related signal.
CredentialSignals == { NoKeyMessage, <<"API", "key", "not", "valid">> }

\* C10: a StartSearch that failed is never answered 200; when the error
\* carries a credential-related signal it is answered 401 with
\* requiresApiKey, otherwise 500 with a message.
C10_ErrorRemap ==
    (last.kind = "search" /\ last.failed) =>
        /\ last.resp.status # 200
        /\ last.cause \in CredentialSignals =>
              /\ last.resp.status = 401
              /\ "requiresApiKey" \in last.resp.fields
        /\ last.cause \notin CredentialSignals =>
              /\ last.resp.status = 500
              /\ last.resp.fields = {"message"}
              /\ last.resp.message # <<>>

\* The provider rejected the credential and the search was answered 401.
C10_Witness ==
    /\ last.kind = "search"
    /\ last.called
    /\ last.failed
    /\ last.resp.status = 401


PendingIds == { p.id : p \in pending }
SuccessFields(kind) ==
    IF kind = "search" THEN {"sessionId", "summary", "sources"} ELSE {"summary", "sources"}

\* C11: every request received is either still suspended at the provider
\* with no response, or has exactly one response; a 200 response is the full
\* success envelope of its operation and is sent only after the provider
\* call and the extraction succeeded; any other response carries none of
\* summary, sources, sessionId.
C11_NoPartialResults ==
    /\ \A id \in 1..MaxRequests :
          IF id > nreq THEN responses[id] = 0
          ELSE IF id \in PendingIds THEN responses[id] = 0
          ELSE responses[id] = 1
    /\ last.id # 0 =>
          IF last.resp.status = 200
          THEN /\ last.resp.fields = SuccessFields(last.kind)
               /\ last.called /\ ~last.failed
          ELSE /\ last.resp.fields \cap {"summary", "sources", "sessionId"} = {}
               /\ last.resp.sessionId = "" /\ last.resp.sources = <<>>

\* A follow-up failed after the provider had answered and got the error envelope.
C11_Witness ==
    /\ last.kind = "followup"
    /\ last.called /\ last.failed
    /\ last.cause = TypeErrorMessage
    /\ last.resp.status = 500
    /\ last.resp.fields = {"message"}


\* The step answers the request it receives.
AnswersOnArrival == nreq' # nreq /\ last'.id = nreq'

C12_Step ==
    (AnswersOnArrival /\ last'.kind = "followup" /\ last'.resp.status = 400)
        => UNCHANGED <<chatSessions, chats, pending, calls>>

\* C12: a follow-up with an empty sessionId or an empty query is answered
\* 400, whether or not the sessionId is a key of the store; no provider call
\* is made for it, and the step that answers it leaves the store unchanged.
C12_FollowUpValidation ==
    /\ [](/\ (last.kind = "followup" /\ (last.sessionId = "" \/ last.query = "")) =>
                /\ last.resp.status = 400
                /\ last.resp.fields = {"message"}
                /\ ~last.called
                /\ calls[last.id] = 0
          /\ \A p \in FollowUpsPending : p.sessionId # "" /\ p.query # "")
    /\ [][C12_Step]_vars

\* An unknown sessionId with an empty query was answered 400, not 404.
C12_Witness ==
    /\ last.kind = "followup"
    /\ last.query = ""
    /\ last.sessionId # ""
    /\ last.sessionId \notin DOMAIN chatSessions
    /\ last.resp.status = 400


\* C14: no step removes a key from the Session Store.
C14_NeverDestroyed == [][DOMAIN chatSessions \subseteq DOMAIN chatSessions']_vars

\* Two sessions are stored and the latest request, a follow-up, failed.
C14_Witness ==
    /\ Cardinality(DOMAIN chatSessions) >= 2
    /\ last.kind = "followup"
    /\ last.failed


\* The step sends a response.
Responds == last'.id # last.id

UserTurn(query, req) == [role |-> "user", text |-> query, req |-> req]
ModelTurn(req) == [role |-> "model", text |-> "answer", req |-> req]

\* The history holds the user turn of request req and, right after it, its
\* model turn.
HasTurns(history, query, req) ==
    \E i \in 1..(Len(history) - 1) :
        history[i] = UserTurn(query, req) /\ history[i + 1] = ModelTurn(req)

\* C15 as stated: when a follow-up is answered 200, the session the store
\* holds under its sessionId contains its user turn and its model turn.
C15_StoredSessionHasTurns ==
    (last.kind = "followup" /\ last.resp.status = 200) =>
        HasTurns(chats[chatSessions[last.sessionId]].history, last.query, last.id)

C15_Step ==
    (Responds /\ last'.kind = "followup" /\ last'.resp.status = 200) =>
        \E p \in pending \ pending' :
            /\ p.id = last'.id
            /\ LET h == chats'[p.chat].history
                   stored == chats'[chatSessions'[p.sessionId]].history
               IN /\ Len(h) >= 2
                  /\ h[Len(h) - 1] = UserTurn(p.query, p.id)
                  /\ h[Len(h)] = ModelTurn(p.id)
                  /\ IF chatSessions'[p.sessionId] = p.chat
                     THEN HasTurns(stored, p.query, p.id)
                     ELSE ~HasTurns(stored, p.query, p.id)

\* C15, amended: when a follow-up is answered 200, the session object it
\* looked up when it was received ends with its user turn and its model turn;
\* the store's session under that id contains them exactly when the store
\* still holds that object, i.e. unless a StartSearch stored a new session
\* under the same id while the follow-up awaited the provider.
C15_LookedUpSessionHasTurns == [][C15_Step]_vars

\* A follow-up was answered 200 after its session id had been given to a new session.
C15_Witness ==
    /\ last.kind = "followup"
    /\ last.resp.status = 200
    /\ ~HasTurns(chats[chatSessions[last.sessionId]].history, last.query, last.id)
    /\ \E c \in DOMAIN chats : HasTurns(chats[c].history, last.query, last.id)


\* h is g with nothing but new turns added at the end.
Extends(h, g) == Len(h) >= Len(g) /\ SubSeq(h, 1, Len(g)) = g

C16_Step ==
    /\ \A c \in DOMAIN chats \cap DOMAIN chats' : Extends(chats'[c].history, chats[c].history)
    /\ (Responds /\ last'.kind = "search" /\ last'.resp.status = 200) =>
          chats'[chatSessions'[last'.resp.sessionId]].history
              = << UserTurn(last'.query, last'.id), ModelTurn(last'.id) >>
    /\ (Responds /\ last'.kind = "followup" /\ last'.resp.status = 200) =>
          \E p \in pending \ pending' :
              /\ p.id = last'.id
              /\ chats'[p.chat].history
                    = chats[p.chat].history \o << UserTurn(p.query, p.id), ModelTurn(p.id) >>
    /\ ~(Responds /\ last'.resp.status = 200) =>
          \A c \in DOMAIN chats \cap DOMAIN chats' : chats'[c].history = chats[c].history

\* C16: a session stored by StartSearch has exactly the user turn and the
\* model turn of its query; each successful follow-up appends exactly its
\* user turn and its model turn; earlier turns are never modified or
\* reordered; nothing but a successful request adds turns (so that n
\* successful follow-ups leave 2+2n turns).
C16_TurnGrowth == [][C16_Step]_vars


\* C17: no request makes more than one provider call; a request suspended
\* at the provider has made exactly one and has no response yet; a request
\* whose call (or handling) failed has been answered with an error and is
\* not sent to the provider again.
C17_NoRetries ==
    /\ \A id \in 1..MaxRequests : calls[id] <= 1
    /\ \A p \in pending : calls[p.id] = 1 /\ responses[p.id] = 0
    /\ last.failed =>
          /\ last.resp.status \in {401, 500}
          /\ last.id \notin PendingIds
          /\ responses[last.id] = 1

\* A search whose single provider call failed was answered 500.
C17_Witness ==
    /\ last.kind = "search"
    /\ last.called /\ last.failed
    /\ last.cause = <<"fetch", "failed">>
    /\ calls[last.id] = 1
    /\ last.resp.status = 500


C18_Step ==
    /\ (Responds /\ last'.kind = "search" /\ last'.resp.status = 200
          /\ last'.resp.sessionId \in DOMAIN chatSessions) =>
          LET sid == last'.resp.sessionId IN
          /\ DOMAIN chatSessions' = DOMAIN chatSessions
          /\ chatSessions'[sid] = last'.id
          /\ chatSessions'[sid] # chatSessions[sid]
          /\ \A k \in DOMAIN chatSessions \ {sid} : chatSessions'[k] = chatSessions[k]
    /\ \A p \in pending' \ pending :
          p.kind = "followup" => p.chat = chatSessions[p.sessionId]

\* C18: a StartSearch whose provider call and extraction succeeded is
\* answered 200 also when the generated identifier is already a key of the
\* store; the entry of that identifier is then replaced by the new session,
\* the other entries and the number of entries stay as they were, and a
\* follow-up received afterwards runs on the session the store holds then.
C18_Collision ==
    /\ []((last.kind = "search" /\ last.called /\ ~last.failed) =>
             /\ last.resp.status = 200
             /\ (last.resp.sessionId \in DOMAIN chatSessions
                   => chatSessions[last.resp.sessionId] = last.id))
    /\ [][C18_Step]_vars

\* A session was replaced under its identifier and a follow-up now waits on
\* the new one.
C18_Witness ==
    /\ last.kind = "search"
    /\ last.resp.status = 200
    /\ \E c \in DOMAIN chats :
          /\ chats[c].history # <<>>
          /\ \A k \in DOMAIN chatSessions : chatSessions[k] # c
    /\ \E p \in FollowUpsPending :
          p.sessionId = last.resp.sessionId /\ p.chat = last.id


C20_Step ==
    ~( /\ AnswersOnArrival /\ last'.kind = "followup"
       /\ last'.sessionId # "" /\ last'.query # ""
       /\ last'.sessionId \in DOMAIN chatSessions )

\* C20: a follow-up with a known session id and a query is never answered on
\* arrival (rejected), whatever calls are in flight on that session, and the
\* handler can always take it (no lock blocks it); with a provider that
\* settles every call, no request stays suspended for ever, and a request
\* that is no longer suspended has its response.
C20_ConcurrentFollowUps ==
    /\ [][C20_Step]_vars
    /\ [](nreq < MaxRequests =>
            \A s \in DOMAIN chatSessions \ {""} : ENABLED FollowUpStart(s, "q1", ""))
    /\ [](\A id \in 1..nreq : id \notin PendingIds => responses[id] = 1)
    /\ []<>(pending = {})

\* Two follow-ups were in flight on one session and the later one was
\* answered first.
C20_Witness ==
    /\ last.kind = "followup"
    /\ last.resp.status = 200
    /\ \E p \in FollowUpsPending :
          /\ p.sessionId = last.sessionId
          /\ p.chat = chatSessions[last.sessionId]
          /\ p.id < last.id


(***************************************************************************)
(* The Search page and the server: the page's follow-up mutation is the    *)
(* only caller. The page starts with the state it saved in localStorage,   *)
(* the server with an empty store (a new process).                         *)
(***************************************************************************)
Fetch(kind, sessionId, query, apiKey) ==
    [kind |-> kind, sessionId |-> sessionId, query |-> query, apiKey |-> apiKey]

InitClient ==
    /\ env \in EnvKeys
    /\ chatSessions = << >>
    /\ chats = << >>
    /\ pending = {}
    /\ nreq = 0
    /\ last = NoRequest
    /\ issued = {}
    /\ calls = [id \in 1..MaxRequests |-> 0]
    /\ responses = [id \in 1..MaxRequests |-> 0]
    /\ rawText = <<>>
    /\ formatted = NoStages
    /\ meta = NoMetadata
    /\ extracted = [threw |-> FALSE, sources |-> <<>>]
    /\ phase = "idle"
    /\ \E s \in AskedIds, k \in ApiKeys :
           client = [NoClient EXCEPT !.sessionId = s, !.customApiKey = k]

PageIdle == <<ServerState, rawText, formatted, meta, extracted, phase>>

\* The response to the page's latest fetch has arrived.
Resolved == client.sent > 0 /\ last.id = client.sent

\* followUpMutation.mutationFn(followUpQuery), up to its first fetch.
FollowUpMutate(followUpQuery) ==
    /\ client.pc = "idle"
    /\ client.sent < MaxRequests
    /\ client' =
          IF client.sessionId = ""
          THEN [client EXCEPT !.pc = "awaitSearch", !.query = followUpQuery,
                   !.wire = Fetch("search", "", followUpQuery, client.customApiKey),
                   !.sent = @ + 1, !.outcome = "pending"]
          ELSE [client EXCEPT !.pc = "awaitFollowUp", !.query = followUpQuery,
                   !.wire = Fetch("followup", client.sessionId, followUpQuery,
                                  client.customApiKey),
                   !.sent = @ + 1, !.outcome = "pending"]
    /\ UNCHANGED PageIdle

\* The rest of mutationFn after a search fetch: throw, or take the session
\* id of the result when it has one, and return the result.
AfterSearch ==
    IF last.resp.status # 200
    THEN [client EXCEPT !.pc = "idle", !.outcome = "error"]
    ELSE [client EXCEPT !.pc = "idle", !.outcome = "success",
             !.sessionId = IF last.resp.sessionId # "" THEN last.resp.sessionId ELSE @]

\* The search fetch of a page without session id resolved.
SearchResolved ==
    /\ client.pc = "awaitSearch"
    /\ Resolved
    /\ client' = AfterSearch
    /\ UNCHANGED PageIdle

\* The follow-up fetch resolved: on 404 the fallback search is fetched with
\* the same query, any other failure is thrown, a success is returned.
FollowUpResolved ==
    /\ client.pc = "awaitFollowUp"
    /\ Resolved
    /\ client' =
          IF last.resp.status = 200
          THEN [client EXCEPT !.pc = "idle", !.outcome = "success"]
          ELSE IF last.resp.status = 404
          THEN [client EXCEPT !.pc = "awaitFallback",
                   !.wire = Fetch("search", "", client.query, client.customApiKey),
                   !.sent = @ + 1]
          ELSE [client EXCEPT !.pc = "idle", !.outcome = "error"]
    /\ UNCHANGED PageIdle

\* The fallback search fetch resolved.
FallbackResolved ==
    /\ client.pc = "awaitFallback"
    /\ Resolved
    /\ client' = AfterSearch
    /\ UNCHANGED PageIdle

\* The server receives the request the page has on the wire.
Undelivered == nreq < client.sent

NextClient ==
    \/ \E q \in Queries : FollowUpMutate(q)
    \/ SearchResolved
    \/ FollowUpResolved
    \/ FallbackResolved
    \/ Undelivered /\ client.wire.kind = "search"
          /\ SearchStart(client.wire.query, client.wire.apiKey)
    \/ Undelivered /\ client.wire.kind = "followup"
          /\ FollowUpStart(client.wire.sessionId, client.wire.query, client.wire.apiKey)
    \/ \E p \in pending, m \in MetaSamples, s \in SessionIds : SearchAnswered(p, m, s)
    \/ \E p \in pending, e \in ProviderErrors : SearchFailed(p, e)
    \/ \E p \in pending, m \in MetaSamples : FollowUpAnswered(p, m)
    \/ \E p \in pending, e \in ProviderErrors : FollowUpFailed(p, e)

SpecClient == InitClient /\ [][NextClient]_vars

(***************************************************************************)
(* C13: heading promotion                                                  *)
(***************************************************************************)
IsUpper(c) == c = "A"

AllLetters(t) == \A i \in 1..Len(t) : IsLetter(t[i])

\* A capitalized word, as "Overview".
IsCapitalizedWord(t) == t # <<>> /\ IsUpper(t[1]) /\ AllLetters(t)

\* The lines of a markdown text.
RECURSIVE Lines(_)
Lines(t) ==
    LET ends == { i \in 1..Len(t) : t[i] = LF }
    IN IF ends = {} THEN <<t>>
       ELSE LET i == CHOOSE e \in ends : \A d \in ends : e <= d
            IN <<SubSeq(t, 1, i - 1)>> \o Lines(SubSeq(t, i + 1, Len(t)))

\* The markdown of a level-2 heading with this content.
Heading2(content) == <<"#", "#", " ">> \o content

\* The text is the one line "<Label>: <text>" with this label and this text.
IsLabelledLine(t, label, text) ==
    /\ IsCapitalizedWord(label)
    /\ text # <<>> /\ AllLetters(text)
    /\ t = label \o <<":", " ">> \o text

\* C13: for the line "<Label>: <text>" (as "Overview: Some text") the
\* formatter's markdown has a level-2 heading whose content is exactly the
\* label, and the text follows outside the heading, on a later line.
C13_HeadingPromotion ==
    phase = "done" =>
        \A n \in 1..Len(rawText) :
            LET label == SubSeq(rawText, 1, n)
                text == SubSeq(rawText, n + 3, Len(rawText))
                lines == Lines(formatted.markdown)
            IN IsLabelledLine(rawText, label, text) =>
                   /\ lines[1] = Heading2(label)
                   /\ \E k \in 2..Len(lines) : lines[k] = text

(***************************************************************************)
(* C19: separation of the two heading passes                               *)
(***************************************************************************)
\* The lines of a text that are level-2 headings, in order.
HeadingLines(t) ==
    SelectSeq(Lines(t), LAMBDA l : Len(l) >= 3 /\ SubSeq(l, 1, 3) = <<"#", "#", " ">>)

\* The colons of a text that a digit follows.
RatioColons(t) == { i \in 1..(Len(t) - 1) : t[i] = ":" /\ IsDigit(t[i + 1]) }

\* A one-line text of ordinary prose (it starts in lower case) in which a
\* capitalized word and a colon are followed by a digit, as
\* "the mix Ratio: 3:2", and every colon is followed by a digit.
HasRatioMidParagraph(t) ==
    /\ t # <<>> /\ t[1] = "a"
    /\ \A i \in 1..Len(t) : t[i] \notin {LF, CR}
    /\ \A i \in 1..Len(t) : t[i] = ":" => i \in RatioColons(t)
    /\ \E i \in RatioColons(t) : \E j \in 2..(i - 1) :
           t[j - 1] = " " /\ IsCapitalizedWord(SubSeq(t, j, i - 1))

\* C19: the sub-section pass leaves the level-2 headings of the top-level pass
\* as they are, it promotes no label whose colon is followed by a digit, and a
\* ratio in the middle of a paragraph comes out of the two heading passes
\* unchanged.
C19_PassSeparation ==
    phase = "done" =>
        /\ HeadingLines(formatted.subsections) = HeadingLines(formatted.sections)
        /\ Cardinality(RatioColons(formatted.subsections))
               = Cardinality(RatioColons(formatted.sections))
        /\ HasRatioMidParagraph(rawText) => formatted.subsections = formatted.normalized


(***************************************************************************)
(* C21: the page's fallback on a follow-up answered 404 (under SpecClient) *)
(***************************************************************************)
\* A step of the mutation that resumes after the fetch it awaited.
Resumes(pc) == client.pc = pc /\ client' # client

\* C21: when the page's follow-up is answered 404, the page fetches a search
\* with the same follow-up query; when that search succeeds the page replaces
\* its session id by the returned one, which the server knows, so that the
\* next follow-up carries the new id and not the unknown one; a page without
\* session id fetches a search, and a page with one a follow-up on that id.
C21_Step ==
    /\ (Resumes("awaitFollowUp") /\ last.resp.status = 404) =>
          /\ client'.pc = "awaitFallback"
          /\ client'.wire.kind = "search"
          /\ client'.wire.query = client.wire.query
    /\ (Resumes("awaitFallback") /\ last.resp.status = 200) =>
          /\ client'.sessionId = last.resp.sessionId
          /\ client'.sessionId \in DOMAIN chatSessions
    /\ Resumes("idle") =>
          IF client.sessionId = ""
          THEN client'.wire.kind = "search"
          ELSE client'.wire.kind = "followup" /\ client'.wire.sessionId = client.sessionId

C21_ClientFallback == [][C21_Step]_vars

====
